---- MODULE Spec2Model ----
(***************************************************************************)
(* Tynamo: a client layer over a DynamoDB table.  The model covers the     *)
(* update-expression compiler (generateUpdateExpression), the condition    *)
(* extractor (parseExpression), the failure classifier and the update and  *)
(* upsert operations with their recovery paths, run against one Identity   *)
(* of the table.                                                           *)
(*                                                                         *)
(* Representation.  A JavaScript value is a tagged record:                 *)
(*   S(n) a scalar, Null, Undefined, L(seq) an array, M(f) a plain object  *)
(*   whose attributes are the function f.  Attribute names are one         *)
(*   character long, a dotted path "a.b" is the sequence <<"a","b">>.      *)
(* An expression string is kept in parsed form: an update expression is    *)
(* the sequence of its SET clauses, a condition expression the sequence    *)
(* (OR) of its conjunctions (AND) of atoms.                                *)
(***************************************************************************)
EXTENDS Integers, Sequences, FiniteSets, TLC

\* ------------------------------------------------------------ bounds ----
\* Scalars an incoming record may carry: 1 .. MaxScalar (stored leaves are 1).
MaxScalar == 2

\* ------------------------------------------------------------ values ----
S(n) == [t |-> "S", v |-> n]
Null == [t |-> "NULL"]
Undefined == [t |-> "U"]
L(s) == [t |-> "L", l |-> s]
M(f) == [t |-> "M", m |-> f]
EmptyMap == M(<<>>)
\* the table holds nothing under the Identity / getRecord returned null
NoItem == [t |-> "ABSENT"]

\* Tynamo.create(tableName, pk, sk): the names of the identity attributes
pk == "p"
sk == "s"
\* the value of the identity attributes of the one Identity of the model
KeyValue == S(1)

\* Object.entries order of the attributes of an object
EntryOrder == <<"p", "s", "a", "b", "-", "_">>
Entries(f) == SelectSeq(EntryOrder, LAMBDA k : k \in DOMAIN f)

\* obj[key] = val
Assign(f, k, v) == [x \in (DOMAIN f) \cup {k} |-> IF x = k THEN v ELSE f[x]]
\* { ...f, ...g }
Spread(f, g) == [x \in (DOMAIN f) \cup (DOMAIN g) |-> IF x \in DOMAIN g THEN g[x] ELSE f[x]]
\* delete obj[key]
Without(f, ks) == [x \in (DOMAIN f) \ ks |-> f[x]]

IsPrefix(p, q) == Len(p) <= Len(q) /\ SubSeq(q, 1, Len(p)) = p

\* the value at a path of an object, Undefined where the path leads nowhere
RECURSIVE GetPath(_, _)
GetPath(val, p) ==
    IF p = <<>> THEN val
    ELSE IF val.t = "M" /\ Head(p) \in DOMAIN val.m
         THEN GetPath(val.m[Head(p)], Tail(p))
         ELSE Undefined

HasPath(val, p) == GetPath(val, p) # Undefined

\* ------------------------------------------------- convertToUnderscore ----
\* /[^a-zA-Z0-9_]/g : the characters the regular expression keeps
WordChars == {"a", "b", "p", "s", "v", "_"}
\* names are one character long: replacing over the name replaces that character
convertToUnderscore(input) == IF input \in WordChars THEN input ELSE "_"

\* ------------------------------------------------------ isNestedRecord ----
isNestedRecord(value) == value.t = "M" /\ DOMAIN value.m # {}

\* ------------------------------------------- generateUpdateExpression ----
\* include is `true`, `false` or an array of dotted paths
IncludeAll == [kind |-> "boolean", value |-> TRUE, paths |-> {}]
IncludeOnly(paths) == [kind |-> "array", value |-> TRUE, paths |-> paths]

\* A name placeholder #w and a value placeholder :w are written w inside a
\* parsed expression; Hash(w) and Colon(w) are the keys of the two maps.
Hash(w) == "#" \o w
Colon(w) == ":" \o w

\* `#${convertToUnderscore(k)}` for each segment of the dotted key, joined by '.'
tagify(key) == [i \in DOMAIN key |-> convertToUnderscore(key[i])]

EmptyCompilation ==
    [updateExpressions |-> <<>>, expressionAttributeNames |-> <<>>, expressionAttributeValues |-> <<>>]

\* currentKey.split('.').forEach(k => { names[`#${convertToUnderscore(k)}`] = k })
RECURSIVE RegisterSegments(_, _)
RegisterSegments(names, key) ==
    IF key = <<>> THEN names
    ELSE RegisterSegments(Assign(names, Hash(convertToUnderscore(Head(key))), Head(key)), Tail(key))

\* the assignment had the value placeholder been numbered by the size of the
\* names map instead of the values map
EmitAssignmentNumberedByNames(acc, currentKey, val, insertKeys) ==
    LET placeholder == tagify(currentKey)
        valueKey == "value" \o ToString(Cardinality(DOMAIN acc.expressionAttributeNames) + 1)
        names == RegisterSegments(acc.expressionAttributeNames, currentKey)
    IN [updateExpressions |-> Append(acc.updateExpressions,
                                 [path |-> placeholder, value |-> valueKey,
                                  if_not_exists |-> currentKey \in insertKeys,
                                  source |-> currentKey]),
        expressionAttributeNames |-> names,
        expressionAttributeValues |-> Assign(acc.expressionAttributeValues, Colon(valueKey), val)]

\* one leaf of the traversal.  `source` is not part of the expression: it
\* records the path of the leaf the clause was emitted for.
EmitAssignment(acc, currentKey, val, insertKeys) ==
    LET placeholder == tagify(currentKey)
        valueKey == "value" \o ToString(Cardinality(DOMAIN acc.expressionAttributeValues) + 1)
        names == RegisterSegments(acc.expressionAttributeNames, currentKey)
    IN [updateExpressions |-> Append(acc.updateExpressions,
                                 [path |-> placeholder, value |-> valueKey,
                                  if_not_exists |-> currentKey \in insertKeys,
                                  source |-> currentKey]),
        expressionAttributeNames |-> names,
        expressionAttributeValues |-> Assign(acc.expressionAttributeValues, Colon(valueKey), val)]

\* the skip test had it applied the exclude list to leaves only: the children
\* of an excluded Map would be visited
SkipAttributeVisitingExcludedMaps(currentKey, val, include, exclude) ==
    \/ currentKey = <<pk>>
    \/ currentKey = <<sk>>
    \/ val = Undefined
    \/ (currentKey \in exclude /\ ~isNestedRecord(val))
    \/ (include.kind = "boolean" /\ include.value = FALSE)
    \/ ((include.kind = "array" /\ currentKey \notin include.paths) /\ ~isNestedRecord(val))

\* the skip test had it no `currentKey === this.pk`
SkipAttributeWithoutPkTest(currentKey, val, include, exclude) ==
    \/ currentKey = <<sk>>
    \/ val = Undefined
    \/ currentKey \in exclude
    \/ (include.kind = "boolean" /\ include.value = FALSE)
    \/ ((include.kind = "array" /\ currentKey \notin include.paths) /\ ~isNestedRecord(val))

\* the skip test had it no `val === undefined`: an attribute whose value is
\* undefined would reach the assignment
SkipAttributeWithoutUndefinedTest(currentKey, val, include, exclude) ==
    \/ currentKey = <<pk>>
    \/ currentKey = <<sk>>
    \/ currentKey \in exclude
    \/ (include.kind = "boolean" /\ include.value = FALSE)
    \/ ((include.kind = "array" /\ currentKey \notin include.paths) /\ ~isNestedRecord(val))

\* the skip test of the loop body: lines 1796-1802
SkipAttribute(currentKey, val, include, exclude) ==
    \/ currentKey = <<pk>>
    \/ currentKey = <<sk>>
    \/ val = Undefined
    \/ currentKey \in exclude
    \/ (include.kind = "boolean" /\ include.value = FALSE)
    \/ ((include.kind = "array" /\ currentKey \notin include.paths) /\ ~isNestedRecord(val))

\* the loop over Object.entries(attributes); ks is what is left of it
RECURSIVE traverseAttributes(_, _, _, _, _, _, _)
traverseAttributes(attributes, parentKey, ks, include, exclude, insertKeys, acc) ==
    IF ks = <<>> THEN acc
    ELSE LET key == Head(ks)
             val == attributes[key]
             currentKey == Append(parentKey, key)
             next == IF SkipAttribute(currentKey, val, include, exclude) THEN acc
                     ELSE IF isNestedRecord(val)
                          THEN traverseAttributes(val.m, currentKey, Entries(val.m),
                                                  include, exclude, insertKeys, acc)
                          ELSE EmitAssignment(acc, currentKey, val, insertKeys)
         IN traverseAttributes(attributes, parentKey, Tail(ks), include, exclude, insertKeys, next)

generateUpdateExpression(record, include, exclude, insertOnly) ==
    LET acc == traverseAttributes(record.m, <<>>, Entries(record.m), include, exclude, insertOnly,
                                  EmptyCompilation)
    IN [UpdateExpression |-> acc.updateExpressions,
        ExpressionAttributeNames |-> acc.expressionAttributeNames,
        ExpressionAttributeValues |-> acc.expressionAttributeValues]

\* ------------------------------------------------ marshall / unmarshall ----
RECURSIVE ContainsUndefined(_)
ContainsUndefined(val) ==
    \/ val = Undefined
    \/ val.t = "M" /\ \E k \in DOMAIN val.m : ContainsUndefined(val.m[k])

RECURSIVE RemoveUndefined(_)
RemoveUndefined(val) ==
    IF val.t = "M"
    THEN M([k \in {x \in DOMAIN val.m : val.m[x] # Undefined} |-> RemoveUndefined(val.m[k])])
    ELSE val

\* marshall(data, options) of @aws-sdk/util-dynamodb: an attribute whose value
\* is undefined is dropped under removeUndefinedValues and makes marshall
\* throw otherwise.  The wire form of a value keeps the tags of this model.
MarshallError == [name |-> "Error",
                  message |-> <<"Pass options.removeUndefinedValues=true to remove undefined values">>,
                  Item |-> NoItem]
marshall(data, removeUndefinedValues) ==
    IF ContainsUndefined(data) /\ ~removeUndefinedValues
    THEN [threw |-> TRUE, Item |-> NoItem]
    ELSE [threw |-> FALSE, Item |-> RemoveUndefined(data)]

\* ------------------------------------------------ lodash: omit, merge ----
\* omit(object, paths): the object without the positions named by paths
RECURSIVE omit(_, _)
omit(object, paths) ==
    M([k \in {x \in DOMAIN object.m : <<x>> \notin paths} |->
         IF object.m[k].t = "M"
         THEN omit(object.m[k], {Tail(p) : p \in {q \in paths : Len(q) > 1 /\ Head(q) = k}})
         ELSE object.m[k]])

\* arrays are merged index by index: the source's elements take the first
\* places, the elements of the destination beyond them stay
MergeArrays(objValue, srcValue) ==
    L([i \in 1 .. (IF Len(objValue.l) > Len(srcValue.l) THEN Len(objValue.l) ELSE Len(srcValue.l)) |->
         IF i <= Len(srcValue.l) THEN srcValue.l[i] ELSE objValue.l[i]])

\* baseMerge / baseMergeDeep / assignMergeValue; ks is what is left of the
\* keys of source, object and source are attribute functions
RECURSIVE baseMerge(_, _, _)
baseMerge(object, source, ks) ==
    IF ks = <<>> THEN object
    ELSE LET key == Head(ks)
             srcValue == source[key]
             inObject == key \in DOMAIN object
             objValue == IF inObject THEN object[key] ELSE Undefined
             newValue ==
                 IF srcValue.t = "L"
                 THEN IF objValue.t = "L" THEN MergeArrays(objValue, srcValue) ELSE srcValue
                 ELSE IF srcValue.t = "M"
                 THEN IF objValue.t = "M"
                      THEN M(baseMerge(objValue.m, srcValue.m, Entries(srcValue.m)))
                      ELSE IF objValue.t = "L"
                           \* named properties put on an array are not marshalled
                           THEN objValue
                           ELSE M(baseMerge(<<>>, srcValue.m, Entries(srcValue.m)))
                 ELSE IF srcValue = Undefined
                 THEN objValue
                 ELSE srcValue
         IN baseMerge(IF newValue = Undefined /\ inObject THEN object ELSE Assign(object, key, newValue),
                      source, Tail(ks))

\* merge(object, source): a null destination is replaced by Object(null) = {}
merge(object, source) ==
    M(baseMerge(IF object = NoItem THEN <<>> ELSE object.m, source.m, Entries(source.m)))

\* ---------------------------------------------------------- mergeRecords ----
mergeRecords(newRecord, oldRecord, include, exclude) ==
    LET excludedNewReocrd == omit(newRecord, exclude)
    IN IF include.kind = "boolean" /\ include.value = TRUE
       THEN merge(oldRecord, excludedNewReocrd)
       ELSE IF include.kind = "array"
            \* pick(newRecord, <object>) picks nothing
            THEN merge(oldRecord, EmptyMap)
            ELSE oldRecord

\* -------------------------------------------------- failures, classifier ----
NoError == [name |-> "", message |-> <<>>, Item |-> NoItem]
\* String.prototype.includes over a message kept as a sequence of phrases
includes(message, phrase) == \E i \in DOMAIN message : message[i] = phrase

\* the wrapper had it kept the name the Error constructor gives it
DynamodbErrorNamedError(orig) ==
    [name |-> "Error",
     message |-> IF orig.message = <<>> THEN <<"DynamodbError">> ELSE orig.message,
     Item |-> NoItem,
     original |-> orig]

\* new DynamodbError(orig)
DynamodbError(orig) ==
    [name |-> orig.name,
     message |-> IF orig.message = <<>> THEN <<"DynamodbError">> ELSE orig.message,
     Item |-> NoItem,
     original |-> orig]

isUpdateError(err) ==
    /\ err.name = "ValidationException"
    /\ \/ includes(err.message, "path provided in the update expression is invalid for update")
       \/ includes(err.message, "Invalid UpdateExpression")

isCheckError(err) == err.name = "ConditionalCheckFailedException"

\* ------------------------------------------------------ parseExpression ----
\* An atom of a condition: fn is a comparison operator, "size" followed by
\* one, or a function name; path the words of its '#'-chain; value the word
\* of its ':'-token, "" when it has none.
Atom(fn, path, value) == [fn |-> fn, path |-> path, value |-> value]
ComparisonOps == {"=", ">", "<", ">=", "<=", "<>"}
SizeOps == {"size=", "size>", "size<", "size>=", "size<=", "size<>"}
Functions == {"begins_with", "attribute_exists", "attribute_not_exists", "attribute_type", "contains"}

\* the atoms each of the three regular expressions matches: `#x OP :v`,
\* `size(#x) OP :v` and `fn(#x)` / `fn(#x, :v)`
MatchesComparison(atom) == atom.fn \in ComparisonOps /\ atom.value # ""
MatchesSize(atom) == atom.fn \in SizeOps /\ atom.value # ""
MatchesFunction(atom) == atom.fn \in Functions
Matched(atom) == MatchesComparison(atom) \/ MatchesSize(atom) \/ MatchesFunction(atom)

RECURSIVE Flatten(_)
Flatten(ss) == IF ss = <<>> THEN <<>> ELSE Head(ss) \o Flatten(Tail(ss))

\* the text of an expression, as the message of the error quotes it
RECURSIVE PathText(_)
PathText(path) ==
    IF Len(path) = 1 THEN Hash(Head(path)) ELSE Hash(Head(path)) \o "." \o PathText(Tail(path))
SizeOp(fn) ==
    CASE fn = "size=" -> "=" [] fn = "size>" -> ">" [] fn = "size<" -> "<"
      [] fn = "size>=" -> ">=" [] fn = "size<=" -> "<=" [] OTHER -> "<>"
AtomText(atom) ==
    IF atom.fn \in ComparisonOps
    THEN PathText(atom.path) \o " " \o atom.fn \o " "
             \o (IF atom.value = "" THEN PathText(atom.path) ELSE Colon(atom.value))
    ELSE IF atom.fn \in SizeOps
    THEN "size(" \o PathText(atom.path) \o ") " \o SizeOp(atom.fn) \o " " \o Colon(atom.value)
    ELSE IF atom.fn \in Functions
    THEN atom.fn \o "(" \o PathText(atom.path)
             \o (IF atom.value = "" THEN "" ELSE ", " \o Colon(atom.value)) \o ")"
    ELSE PathText(atom.path) \o " IN (" \o Colon(atom.value) \o ")"
RECURSIVE JoinText(_, _)
JoinText(texts, separator) ==
    IF texts = <<>> THEN ""
    ELSE IF Len(texts) = 1 THEN Head(texts)
    ELSE Head(texts) \o separator \o JoinText(Tail(texts), separator)
ExprText(expr) ==
    JoinText([i \in DOMAIN expr |-> JoinText([j \in DOMAIN expr[i] |-> AtomText(expr[i][j])], " and ")],
             " or ")

\* the registration had it taken the first part of the chain only
RegisterPartsFirstOnly(names, parts) ==
    IF parts = <<>> THEN names ELSE Assign(names, Hash(Head(parts)), Head(parts))

\* result.attributeNames[`#${part[0]}`] = part[0] for every part of the chain
RECURSIVE RegisterParts(_, _)
RegisterParts(names, parts) ==
    IF parts = <<>> THEN names
    ELSE RegisterParts(Assign(names, Hash(Head(parts)), Head(parts)), Tail(parts))

\* the loop over the matches; attributeValue is the token the loop threw at
RECURSIVE ParseMatches(_, _, _)
ParseMatches(matches, attributeValues, result) ==
    IF matches = <<>> \/ result.threw THEN result
    ELSE LET match == Head(matches)
             names == RegisterParts(result.attributeNames, match.path)
         IN IF match.value = ""
            THEN ParseMatches(Tail(matches), attributeValues,
                              [result EXCEPT !.attributeNames = names])
            ELSE IF Colon(match.value) \in DOMAIN attributeValues
                 THEN ParseMatches(Tail(matches), attributeValues,
                          [result EXCEPT !.attributeNames = names,
                                         !.attributeValues = Assign(@, Colon(match.value),
                                                                    attributeValues[Colon(match.value)])])
                 ELSE [result EXCEPT !.threw = TRUE, !.attributeValue = match.value]

\* the error had its message left out the text of the expression
MissingValueErrorWithoutExpression(attributeValue, expr) ==
    [name |-> "Error",
     message |-> <<Colon(attributeValue), "value not found in expression">>,
     Item |-> NoItem]

\* new Error(`\n":${attributeValue}" value not found in expression ...\n"${expr}"\n`)
MissingValueError(attributeValue, expr) ==
    [name |-> "Error",
     message |-> <<Colon(attributeValue), "value not found in expression", ExprText(expr)>>,
     Item |-> NoItem]

\* parseExpression had it returned the caller's mapping as it came
parseExpressionWholeMapping(expr, attributeValues) ==
    LET flat == Flatten(expr)
        matches == SelectSeq(flat, MatchesComparison) \o SelectSeq(flat, MatchesSize)
                       \o SelectSeq(flat, MatchesFunction)
        result == ParseMatches(matches, attributeValues,
                               [threw |-> FALSE, attributeValue |-> "",
                                attributeNames |-> <<>>, attributeValues |-> <<>>])
    IN [threw |-> result.threw,
        error |-> IF result.threw THEN DynamodbError(MissingValueError(result.attributeValue, expr))
                  ELSE NoError,
        attributeNames |-> result.attributeNames,
        attributeValues |-> attributeValues]

\* the matches of the first regular expression, then those of the second,
\* then those of the third; error is what parseExpression throws when threw
parseExpression(expr, attributeValues) ==
    LET flat == Flatten(expr)
        matches == SelectSeq(flat, MatchesComparison) \o SelectSeq(flat, MatchesSize)
                       \o SelectSeq(flat, MatchesFunction)
        result == ParseMatches(matches, attributeValues,
                               [threw |-> FALSE, attributeValue |-> "",
                                attributeNames |-> <<>>, attributeValues |-> <<>>])
    IN [threw |-> result.threw,
        error |-> IF result.threw THEN DynamodbError(MissingValueError(result.attributeValue, expr))
                  ELSE NoError,
        attributeNames |-> result.attributeNames,
        attributeValues |-> result.attributeValues]

\* ------------------------------------------------------------ the gateway ----
\* DynamoDB behind client.send.  Every operator below gives the SET of the
\* responses the gateway can give, [error, table]: error = NoError on
\* success, table the content of the Identity after the request.
Responses(error, tbl) == [error |-> error, table |-> tbl]

\* a request can fail on the way (throttling, time-out, service failure)
InfrastructureFailure == [name |-> "InternalServerError", message |-> <<"Internal server error">>, Item |-> NoItem]

SyntaxError == [name |-> "ValidationException",
                message |-> <<"Invalid UpdateExpression", "Syntax error; token: <EOF>">>, Item |-> NoItem]
EmptyValuesError == [name |-> "ValidationException",
                     message |-> <<"ExpressionAttributeValues must not be empty">>, Item |-> NoItem]
UndefinedNameError == [name |-> "ValidationException",
                       message |-> <<"An expression attribute name used in the document path is not defined">>,
                       Item |-> NoItem]
UnusedNameError == [name |-> "ValidationException",
                    message |-> <<"Value provided in ExpressionAttributeNames unused in expressions">>,
                    Item |-> NoItem]
UndefinedValueError == [name |-> "ValidationException",
                        message |-> <<"An expression attribute value used in expression is not defined">>,
                        Item |-> NoItem]
UnusedValueError == [name |-> "ValidationException",
                     message |-> <<"Value provided in ExpressionAttributeValues unused in expressions">>,
                     Item |-> NoItem]
OverlapError == [name |-> "ValidationException",
                 message |-> <<"Invalid UpdateExpression", "Two document paths overlap with each other">>,
                 Item |-> NoItem]
InvalidPathError == [name |-> "ValidationException",
                     message |-> <<"The document ", "path provided in the update expression is invalid for update">>,
                     Item |-> NoItem]
ConditionalCheckFailedException(item) ==
    [name |-> "ConditionalCheckFailedException", message |-> <<"The conditional request failed">>,
     Item |-> item]

ResolvePath(path, names) == [i \in DOMAIN path |-> names[Hash(path[i])]]

\* one atom of a condition against an item (M(<<>>) when there is none)
EvalAtom(item, atom, names, values) ==
    LET attr == GetPath(item, ResolvePath(atom.path, names))
        operand == IF atom.value = "" THEN Undefined ELSE values[Colon(atom.value)]
        comparable == attr.t = "S" /\ operand.t = "S"
    IN CASE atom.fn = "attribute_exists" -> attr # Undefined
         [] atom.fn = "attribute_not_exists" -> attr = Undefined
         [] atom.fn = "=" -> attr # Undefined /\ attr = operand
         [] atom.fn = "<>" -> attr # operand
         [] atom.fn = "in" -> attr # Undefined /\ attr = operand
         [] atom.fn = "<" -> comparable /\ attr.v < operand.v
         [] atom.fn = "<=" -> comparable /\ attr.v <= operand.v
         [] atom.fn = ">" -> comparable /\ attr.v > operand.v
         [] atom.fn = ">=" -> comparable /\ attr.v >= operand.v
         [] OTHER -> FALSE

\* AND binds tighter than OR
EvalCondition(item, condition, names, values) ==
    \E i \in DOMAIN condition :
        \A j \in DOMAIN condition[i] : EvalAtom(item, condition[i][j], names, values)

\* item with val at path p; the maps above p exist
RECURSIVE SetPath(_, _, _)
SetPath(item, p, val) ==
    IF Len(p) = 1 THEN M(Assign(item.m, Head(p), val))
    ELSE M(Assign(item.m, Head(p), SetPath(item.m[Head(p)], Tail(p), val)))

\* every proper prefix of p is a Map of the item
ValidUpdatePath(item, p) ==
    \A n \in 1 .. (Len(p) - 1) : GetPath(item, SubSeq(p, 1, n)).t = "M"

\* the SET clauses applied in turn; operands are read from the item as it was
RECURSIVE ApplyClauses(_, _, _, _, _)
ApplyClauses(item, original, clauses, names, values) ==
    IF clauses = <<>> THEN item
    ELSE LET clause == Head(clauses)
             p == ResolvePath(clause.path, names)
             val == IF clause.if_not_exists /\ HasPath(original, p)
                    THEN GetPath(original, p)
                    ELSE values[Colon(clause.value)]
         IN ApplyClauses(SetPath(item, p, val), original, Tail(clauses), names, values)

Range(seq) == {seq[i] : i \in DOMAIN seq}
WordsOf(parts) == UNION {Range(part.path) : part \in parts}

UsedNames(params) ==
    {Hash(w) : w \in WordsOf(Range(params.UpdateExpression)) \cup
                     WordsOf(Range(Flatten(params.ConditionExpression)))}
UsedValues(params) ==
    {Colon(part.value) : part \in {x \in Range(params.UpdateExpression) \cup
                                         Range(Flatten(params.ConditionExpression)) : x.value # ""}}

\* two SET clauses address the same position, or one a position inside the other
Overlap(params) ==
    \E i, j \in DOMAIN params.UpdateExpression :
        /\ i # j
        /\ IsPrefix(ResolvePath(params.UpdateExpression[i].path, params.ExpressionAttributeNames),
                    ResolvePath(params.UpdateExpression[j].path, params.ExpressionAttributeNames))

\* what the request is rejected with before the item is looked at
RequestErrors(params) ==
    IF params.UpdateExpression = <<>>
    THEN {SyntaxError} \cup (IF DOMAIN params.ExpressionAttributeValues = {} THEN {EmptyValuesError} ELSE {})
    ELSE IF ~(UsedNames(params) \subseteq DOMAIN params.ExpressionAttributeNames) THEN {UndefinedNameError}
    ELSE IF ~(UsedValues(params) \subseteq DOMAIN params.ExpressionAttributeValues) THEN {UndefinedValueError}
    ELSE IF ~(DOMAIN params.ExpressionAttributeNames \subseteq UsedNames(params)) THEN {UnusedNameError}
    ELSE IF ~(DOMAIN params.ExpressionAttributeValues \subseteq UsedValues(params)) THEN {UnusedValueError}
    ELSE IF Overlap(params) THEN {OverlapError}
    ELSE {}

\* UpdateItemCommand: request validation, then the condition, then the SET
\* clauses; an item that does not exist is created from the Key
UpdateItemOutcome(tbl, params) ==
    LET names == params.ExpressionAttributeNames
        values == params.ExpressionAttributeValues
        current == IF tbl = NoItem THEN EmptyMap ELSE tbl
        base == IF tbl = NoItem THEN params.Key ELSE tbl
    IN IF params.ConditionExpression # <<>> /\
          ~EvalCondition(current, params.ConditionExpression, names, values)
       THEN Responses(ConditionalCheckFailedException(
                          IF params.ReturnValuesOnConditionCheckFailure = "ALL_OLD" THEN tbl ELSE NoItem),
                      tbl)
       ELSE IF \E i \in DOMAIN params.UpdateExpression :
                  ~ValidUpdatePath(base, ResolvePath(params.UpdateExpression[i].path, names))
            THEN Responses(InvalidPathError, tbl)
            ELSE Responses(NoError, ApplyClauses(base, base, params.UpdateExpression, names, values))

UpdateItemResponses(tbl, params) ==
    {Responses(InfrastructureFailure, tbl)} \cup
    (IF RequestErrors(params) # {}
     THEN {Responses(e, tbl) : e \in RequestErrors(params)}
     ELSE {UpdateItemOutcome(tbl, params)})

\* GetItemCommand: table of the response is the Item read
GetItemResponses(tbl) == {Responses(InfrastructureFailure, tbl), Responses(NoError, tbl)}

\* PutItemCommand had the request carried attribute_not_exists: an item the
\* Identity holds would stay
PutItemResponsesIfAbsent(tbl, item) ==
    {Responses(InfrastructureFailure, tbl), Responses(NoError, IF tbl = NoItem THEN item ELSE tbl)}

\* PutItemCommand: the item replaces what the Identity holds
PutItemResponses(tbl, item) == {Responses(InfrastructureFailure, tbl), Responses(NoError, item)}

\* ----------------------------------------------------- keys, updateItem ----
\* keys(record): the identity attributes of the record
keys(record) == M([k \in {pk, sk} \cap DOMAIN record.m |-> record.m[k]])

\* `${ConditionExpression} and attribute_exists(...)`: the text is appended
\* to the expression, so the atom joins its last conjunction
AppendAnd(condition, atom) ==
    IF condition = <<>> THEN <<<<atom>>>>
    ELSE [condition EXCEPT ![Len(condition)] = Append(@, atom)]

\* updateItem(params): the request it sends
updateItem(params) ==
    [params EXCEPT
        !.ConditionExpression =
            AppendAnd(AppendAnd(@, Atom("attribute_exists", <<pk>>, "")),
                      Atom("attribute_exists", <<sk>>, "")),
        !.ExpressionAttributeNames = Assign(Assign(@, Hash(pk), pk), Hash(sk), sk)]

\* ---------------------------------------------------------------- inputs ----
\* a record of the one Identity with the given attributes "a" and "b"
\* (NoItem for a or b: the record has no such attribute)
Record(a, b) ==
    M([k \in {pk, sk} \cup (IF a = NoItem THEN {} ELSE {"a"}) \cup (IF b = NoItem THEN {} ELSE {"b"}) |->
         IF k \in {pk, sk} THEN KeyValue ELSE IF k = "a" THEN a ELSE b])

\* what the table can hold under the Identity when a call starts
StoredValues ==
    {NoItem, S(1), L(<<1, 1>>), EmptyMap,
     M([a |-> S(1)]), M([b |-> S(1)]), M([a |-> S(1), b |-> S(1)]), M([a |-> M([b |-> S(1)])])}
StoredItems == {Record(a, b) : a \in StoredValues, b \in {NoItem, S(1)}}

\* the records a caller passes
InLeaves == {S(n) : n \in 1 .. MaxScalar} \cup {Null, Undefined, EmptyMap, L(<<2>>)}
InNested ==
    {M([a |-> S(2)]), M([b |-> S(2)]), M([a |-> Undefined]), M([a |-> S(2), b |-> S(2)]),
     M([a |-> M([a |-> S(2)])])}
Records == {Record(a, b) : a \in {NoItem} \cup InLeaves \cup InNested,
                           b \in {NoItem, S(2), Undefined, M([a |-> S(2)])}}

\* conditionExpression and expressionAttributeValues of a call
NoCondition == [conditionExpression |-> <<>>, expressionAttributeValues |-> <<>>]
\* '#b = :v'
ConditionEq(values) ==
    [conditionExpression |-> <<<<Atom("=", <<"b">>, "v")>>>>, expressionAttributeValues |-> values]
\* 'attribute_not_exists(#b) or #b < :v'
ConditionOr(values) ==
    [conditionExpression |-> <<<<Atom("attribute_not_exists", <<"b">>, "")>>, <<Atom("<", <<"b">>, "v")>>>>,
     expressionAttributeValues |-> values]
\* '#b IN (:v)'
ConditionIn(values) ==
    [conditionExpression |-> <<<<Atom("in", <<"b">>, "v")>>>>, expressionAttributeValues |-> values]
Conditions ==
    {NoCondition, ConditionEq(":v" :> S(1)), ConditionEq(<<>>),
     ConditionOr(":v" :> S(1)), ConditionOr(":v" :> S(2)),
     ConditionIn(":v" :> S(1)), ConditionIn(<<>>)}

InsertOnlyLists == {{}, {<<"b">>}, {<<"a", "a">>}}
IncludeLists == {{}, {<<"a">>}, {<<"b">>}, {<<"a", "a">>}, {<<"a", "a">>, <<"b">>}}
ExcludeLists == {{}, {<<"a">>}, {<<"b">>}, {<<"a", "a">>}}

\* marshallOptions.removeUndefinedValues; it changes nothing for a record
\* without an undefined attribute
MarshallOptions(record) == IF ContainsUndefined(record) THEN BOOLEAN ELSE {FALSE}

\* ----------------------------------------------------------------- state ----
VARIABLES
    table,        \* what the table holds under the Identity: an item or NoItem
    pc,           \* where the call is: "idle", "getRecord", "putRecord", "done"
    call,         \* the operation called and its arguments
    before,       \* the table when the call started
    requests,     \* the requests the call has sent to the gateway, in order
    updateError,  \* the failure the UpdateItem request of the call came back with
    pending,      \* the item the coming PutItem request carries
    outcome,      \* how the call ended: returned, undefined or thrown
    run,          \* 1, or 2 when the caller has issued the same call again
    other,        \* the call another caller has completed on the same Identity
    batch,        \* the batch call: its input, its groups and their requests
    stored        \* the identities the table holds, for the batch operations

vars == <<table, pc, call, before, requests, updateError, pending, outcome, run, other, batch, stored>>

NoCall == [op |-> "none"]
Pending == [kind |-> "pending", error |-> NoError]
Returned == [kind |-> "returned", error |-> NoError]
ReturnedUndefined == [kind |-> "undefined", error |-> NoError]
Thrown(error) == [kind |-> "thrown", error |-> error]

Init ==
    /\ table \in {NoItem} \cup StoredItems
    /\ pc = "idle"
    /\ call = NoCall
    /\ before = NoItem
    /\ requests = <<>>
    /\ updateError = NoError
    /\ pending = NoItem
    /\ outcome = Pending
    /\ run = 1
    /\ other = NoCall
    /\ batch = NoCall
    /\ stored = {}

\* where a call goes next: [pc, pending, outcome]
Finish(result) == [pc |-> "done", pending |-> NoItem, outcome |-> result]

\* putRecord(record, { marshallOptions }) up to its request
putRecord(record, options) ==
    LET item == marshall(record, options.removeUndefinedValues)
    IN IF item.threw THEN Finish(Thrown(MarshallError))
       ELSE [pc |-> "putRecord", pending |-> item.Item, outcome |-> Pending]

\* the recovery had it waited for a read it never sent
getRecordNeverSent == [pc |-> "waiting", pending |-> NoItem, outcome |-> Pending]

\* getRecord(pk, sk) up to its request
getRecord == [pc |-> "getRecord", pending |-> NoItem, outcome |-> Pending]

\* the request of a Nested call: the compiled expression, merged with what
\* parseExpression extracted when the caller gave a condition
NestedParams(record, options, gen, returnValues) ==
    LET parsed == parseExpression(options.conditionExpression, options.expressionAttributeValues)
        given == options.conditionExpression # <<>>
    IN [Key |-> keys(record),
        UpdateExpression |-> gen.UpdateExpression,
        ExpressionAttributeNames |->
            IF given THEN Spread(gen.ExpressionAttributeNames, parsed.attributeNames)
            ELSE gen.ExpressionAttributeNames,
        ExpressionAttributeValues |->
            IF given THEN Spread(gen.ExpressionAttributeValues, parsed.attributeValues)
            ELSE gen.ExpressionAttributeValues,
        ConditionExpression |-> options.conditionExpression,
        ReturnValuesOnConditionCheckFailure |-> returnValues]

ParseThrows(options) ==
    /\ options.conditionExpression # <<>>
    /\ parseExpression(options.conditionExpression, options.expressionAttributeValues).threw

\* the arguments of a call, kept for the steps that follow the first request
Call(op, record, include, exclude, insertOnly, condition, removeUndefinedValues) ==
    [op |-> op, record |-> record, include |-> include, exclude |-> exclude, insertOnly |-> insertOnly,
     conditionExpression |-> condition.conditionExpression,
     expressionAttributeValues |-> condition.expressionAttributeValues,
     removeUndefinedValues |-> removeUndefinedValues]

\* -------------------------------------------------------- catch blocks ----
\* the catch of upsertRecordNested had it fetched the original record after
\* any failure it does not classify as a failed condition check
CatchUpsertNestedReadsOnAnyFailure(error, c) ==
    LET oldRecord == error.original.Item
    IN IF isCheckError(error) /\ oldRecord # NoItem /\ c.conditionExpression # <<>>
       THEN Finish(ReturnedUndefined)
       ELSE IF isCheckError(error) /\ oldRecord = NoItem
       THEN putRecord(c.record, c)
       ELSE getRecord

\* upsertRecordNested, lines 1481-1510
CatchUpsertNested(error, c) ==
    LET oldRecord == error.original.Item
    IN IF isCheckError(error) /\ oldRecord # NoItem /\ c.conditionExpression # <<>>
       THEN Finish(ReturnedUndefined)
       ELSE IF isCheckError(error) /\ oldRecord = NoItem
       THEN putRecord(c.record, c)
       ELSE IF isUpdateError(error)
       THEN getRecord
       ELSE Finish(Thrown(error))

\* the catch of updateRecordNested had it wrapped the error it caught instead
\* of the original of that error
CatchUpdateNestedWrapsWrapper(error, c) ==
    LET origErr == error.original
    IN IF isUpdateError(origErr) THEN getRecord
       ELSE IF isCheckError(origErr) THEN Finish(ReturnedUndefined)
       ELSE Finish(Thrown(DynamodbError(error)))

\* updateRecordNested, lines 1405-1426
CatchUpdateNested(error, c) ==
    LET origErr == error.original
    IN IF isUpdateError(origErr) THEN getRecord
       ELSE IF isCheckError(origErr) THEN Finish(ReturnedUndefined)
       ELSE Finish(Thrown(DynamodbError(origErr)))

\* upsertRecordIncluding, lines 1548-1568
CatchUpsertIncluding(error, c) ==
    IF isCheckError(error) THEN putRecord(c.record, c)
    ELSE IF isUpdateError(error) THEN getRecord
    ELSE Finish(Thrown(error))

\* updateRecordExcluding and updateRecordIncluding return the promise of
\* updateItem without awaiting it: a rejection passes by their catch blocks
NotCaught(error, c) == Finish(Thrown(error))

Catch(error, c) ==
    CASE c.op = "upsertRecordNested" -> CatchUpsertNested(error, c)
      [] c.op = "updateRecordNested" -> CatchUpdateNested(error, c)
      [] c.op = "upsertRecordIncluding" -> CatchUpsertIncluding(error, c)
      [] OTHER -> NotCaught(error, c)

\* ---------------------------------------------------------------- actions ----
Goto(next) ==
    /\ pc' = next.pc
    /\ pending' = next.pending
    /\ outcome' = next.outcome

\* the first request of a call: send(UpdateItemCommand) and what the call
\* does with the response
Attempt(c, params) ==
    /\ pc = "idle"
    /\ run = 2 => c = call
    /\ call' = c
    /\ before' = table
    /\ UNCHANGED <<run, other, batch, stored>>
    /\ \E response \in UpdateItemResponses(table, updateItem(params)) :
        /\ table' = response.table
        /\ requests' = Append(requests, "UpdateItem")
        /\ updateError' = response.error
        /\ IF response.error = NoError
           THEN Goto(Finish(Returned))
           ELSE Goto(Catch(DynamodbError(response.error), c))

\* parseExpression threw inside the try block: nothing is sent
ParseFailure(c) ==
    /\ pc = "idle"
    /\ run = 2 => c = call
    /\ call' = c
    /\ before' = table
    /\ Goto(Catch(parseExpression(c.conditionExpression, c.expressionAttributeValues).error, c))
    /\ UNCHANGED <<table, requests, updateError, run, other, batch, stored>>

updateRecordNested ==
    /\ pc = "idle"
    /\ \E record \in Records, condition \in Conditions :
       \E removeUndefinedValues \in MarshallOptions(record) :
           LET c == Call("updateRecordNested", record, IncludeAll, {}, {}, condition, removeUndefinedValues)
               gen == generateUpdateExpression(record, IncludeAll, {}, {})
           IN IF ParseThrows(c) THEN ParseFailure(c)
              ELSE Attempt(c, NestedParams(record, c, gen, "NONE"))

upsertRecordNested ==
    /\ pc = "idle"
    /\ \E record \in Records, condition \in Conditions, insertOnly \in InsertOnlyLists :
       \E removeUndefinedValues \in MarshallOptions(record) :
           LET c == Call("upsertRecordNested", record, IncludeAll, {}, insertOnly, condition,
                         removeUndefinedValues)
               gen == generateUpdateExpression(record, IncludeAll, {}, insertOnly)
           IN IF ParseThrows(c) THEN ParseFailure(c)
              ELSE Attempt(c, NestedParams(record, c, gen, "ALL_OLD"))

upsertRecordIncluding ==
    /\ pc = "idle"
    /\ \E record \in Records, include \in IncludeLists :
       \E removeUndefinedValues \in MarshallOptions(record) :
           LET c == Call("upsertRecordIncluding", record, IncludeOnly(include), {}, {}, NoCondition,
                         removeUndefinedValues)
               gen == generateUpdateExpression(record, IncludeOnly(include), {}, {})
           IN Attempt(c, [Key |-> keys(record),
                          UpdateExpression |-> gen.UpdateExpression,
                          ExpressionAttributeNames |->
                              Assign(Assign(gen.ExpressionAttributeNames, Hash(pk), pk), Hash(sk), sk),
                          ConditionExpression |->
                              <<<<Atom("attribute_exists", <<pk>>, ""), Atom("attribute_exists", <<sk>>, "")>>>>,
                          ExpressionAttributeValues |-> gen.ExpressionAttributeValues,
                          ReturnValuesOnConditionCheckFailure |-> "ALL_OLD"])

updateRecordExcluding ==
    /\ pc = "idle"
    /\ \E record \in Records, exclude \in ExcludeLists :
           LET c == Call("updateRecordExcluding", record, IncludeAll, exclude, {}, NoCondition, FALSE)
               gen == generateUpdateExpression(record, IncludeAll, exclude, {})
           IN Attempt(c, [Key |-> keys(record),
                          UpdateExpression |-> gen.UpdateExpression,
                          ExpressionAttributeNames |-> gen.ExpressionAttributeNames,
                          ExpressionAttributeValues |-> gen.ExpressionAttributeValues,
                          ConditionExpression |-> <<>>,
                          ReturnValuesOnConditionCheckFailure |-> "NONE"])

updateRecordIncluding ==
    /\ pc = "idle"
    /\ \E record \in Records, include \in IncludeLists :
           LET c == Call("updateRecordIncluding", record, IncludeOnly(include), {}, {}, NoCondition, FALSE)
               gen == generateUpdateExpression(record, IncludeOnly(include), {}, {})
           IN Attempt(c, [Key |-> keys(record),
                          UpdateExpression |-> gen.UpdateExpression,
                          ExpressionAttributeNames |-> gen.ExpressionAttributeNames,
                          ExpressionAttributeValues |-> gen.ExpressionAttributeValues,
                          ConditionExpression |-> <<>>,
                          ReturnValuesOnConditionCheckFailure |-> "NONE"])

\* the recovery of a schema mismatch: getRecord, mergeRecords, then putRecord
\* up to its request
FetchOriginalRecord ==
    /\ pc = "getRecord"
    /\ \E response \in GetItemResponses(table) :
        /\ requests' = Append(requests, "GetItem")
        /\ IF response.error # NoError
           THEN Goto(Finish(Thrown(DynamodbError(response.error))))
           ELSE Goto(putRecord(mergeRecords(call.record, response.table, IncludeAll, {}), call))
    /\ UNCHANGED <<table, call, before, updateError, run, other, batch, stored>>

\* send(PutItemCommand) of putRecord and the return of its result
PutItem ==
    /\ pc = "putRecord"
    /\ \E response \in PutItemResponses(table, pending) :
        /\ table' = response.table
        /\ requests' = Append(requests, "PutItem")
        /\ IF response.error # NoError
           THEN Goto(Finish(Thrown(DynamodbError(response.error))))
           ELSE Goto(Finish(Returned))
    /\ UNCHANGED <<call, before, updateError, run, other, batch, stored>>

Next ==
    \/ updateRecordNested
    \/ upsertRecordNested
    \/ upsertRecordIncluding
    \/ updateRecordExcluding
    \/ updateRecordIncluding
    \/ FetchOriginalRecord
    \/ PutItem

Spec == Init /\ [][Next]_vars

\* ------------------------------------------- parseExpression on its own ----
\* sub-expressions: the recognized forms, with plain and dotted attribute
\* chains, and '#b IN (:w)', which none of the regular expressions matches
ParseAtoms ==
    {Atom("=", <<"a">>, "v"), Atom("<>", <<"a", "b">>, "w"), Atom("size>", <<"b">>, "v"),
     Atom("attribute_exists", <<"a", "b">>, ""), Atom("attribute_not_exists", <<"b">>, ""),
     Atom("begins_with", <<"b", "a">>, "w"), Atom("contains", <<"a">>, "v"),
     Atom("in", <<"b">>, "w")}
\* one sub-expression, two joined by `and`, two joined by `or`
ParseExpressions ==
    {<<<<x>>>> : x \in ParseAtoms}
        \cup {<<<<x, y>>>> : x \in ParseAtoms, y \in ParseAtoms}
        \cup {<<<<x>>, <<y>>>> : x \in ParseAtoms, y \in ParseAtoms}
\* the caller's mapping: any of the tokens :v, :w and :u, each with its value
ParseValues ==
    {[t \in T |-> IF t = ":v" THEN S(1) ELSE IF t = ":w" THEN S(2) ELSE Null] : T \in SUBSET {":v", ":w", ":u"}}

\* Tynamo.parseExpression(expr, attributeValues), called directly
CallParseExpression ==
    /\ pc = "idle"
    /\ \E expr \in ParseExpressions, values \in ParseValues :
           LET parsed == parseExpression(expr, values)
           IN /\ call' = [op |-> "parseExpression", conditionExpression |-> expr,
                          expressionAttributeValues |-> values]
              /\ Goto(Finish(IF parsed.threw THEN Thrown(parsed.error) ELSE Returned))
    /\ before' = table
    /\ UNCHANGED <<table, requests, updateError, run, other, batch, stored>>

SpecParse == Init /\ [][CallParseExpression]_vars

\* parseExpression on its own and inside the two operations that take a
\* condition
NextCondition ==
    \/ CallParseExpression
    \/ updateRecordNested
    \/ upsertRecordNested
    \/ FetchOriginalRecord
    \/ PutItem

SpecCondition == Init /\ [][NextCondition]_vars

\* --------------------------------------------- the same call, once more ----
\* the caller awaits upsertRecordNested and calls it again with the same
\* arguments; the second call starts from what the first left in the table
Repeat ==
    /\ pc = "done"
    /\ run = 1
    /\ call.op = "upsertRecordNested"
    /\ outcome.kind \in {"returned", "undefined"}
    /\ run' = 2
    /\ pc' = "idle"
    /\ requests' = <<>>
    /\ updateError' = NoError
    /\ pending' = NoItem
    /\ outcome' = Pending
    /\ UNCHANGED <<table, call, before, other, batch, stored>>

NextTwice ==
    \/ upsertRecordNested
    \/ FetchOriginalRecord
    \/ PutItem
    \/ Repeat

SpecTwice == Init /\ [][NextTwice]_vars

\* ------------------------------------------- another caller, same Identity ----
\* the records of the other caller: its values are none of the first caller's
OtherRecords == {Record(S(0), NoItem), Record(S(0), S(0)), Record(NoItem, M([a |-> S(0)]))}

\* the other caller's request had it been applied to the item as it was when
\* the first caller's call started, and the result written back
OtherCallOnStaleItem ==
    /\ other = NoCall
    /\ \E record \in OtherRecords :
           LET c == Call("updateRecordNested", record, IncludeAll, {}, {}, NoCondition, FALSE)
               gen == generateUpdateExpression(record, IncludeAll, {}, {})
               response == UpdateItemOutcome(before, updateItem(NestedParams(record, c, gen, "NONE")))
           IN /\ response.error = NoError
              /\ table' = response.table
              /\ other' = [op |-> "updateRecordNested", record |-> record, at |-> pc]
    /\ UNCHANGED <<pc, call, before, requests, updateError, pending, outcome, run, batch, stored>>

\* updateRecordNested(record) of another caller completes on its UpdateItem
\* request: the gateway applies the request in one step to what the table
\* holds then, wherever the first caller's call is
OtherCall ==
    /\ other = NoCall
    /\ \E record \in OtherRecords :
           LET c == Call("updateRecordNested", record, IncludeAll, {}, {}, NoCondition, FALSE)
               gen == generateUpdateExpression(record, IncludeAll, {}, {})
               response == UpdateItemOutcome(table, updateItem(NestedParams(record, c, gen, "NONE")))
           IN /\ response.error = NoError
              /\ table' = response.table
              /\ other' = [op |-> "updateRecordNested", record |-> record, at |-> pc]
    /\ UNCHANGED <<pc, call, before, requests, updateError, pending, outcome, run, batch, stored>>

NextConcurrent ==
    \/ updateRecordNested
    \/ upsertRecordNested
    \/ FetchOriginalRecord
    \/ PutItem
    \/ OtherCall

SpecConcurrent == Init /\ [][NextConcurrent]_vars

\* ------------------------------- other callers that delete and that create ----
\* batchDeleteRecord of another caller on the Identity has been applied
OtherDelete ==
    /\ other = NoCall
    /\ table # NoItem
    /\ table' = NoItem
    /\ other' = [op |-> "batchDeleteRecord", record |-> table, at |-> pc]
    /\ UNCHANGED <<pc, call, before, requests, updateError, pending, outcome, run, batch, stored>>

\* putRecord(record) of another caller on the Identity has been applied
OtherPut ==
    /\ other = NoCall
    /\ \E record \in OtherRecords :
           /\ table' = record
           /\ other' = [op |-> "putRecord", record |-> record, at |-> pc]
    /\ UNCHANGED <<pc, call, before, requests, updateError, pending, outcome, run, batch, stored>>

NextInterleaved ==
    \/ updateRecordNested
    \/ upsertRecordNested
    \/ FetchOriginalRecord
    \/ PutItem
    \/ OtherCall
    \/ OtherDelete
    \/ OtherPut

SpecInterleaved == Init /\ [][NextInterleaved]_vars

\* ---------------------------------------------- the placeholder merge alone ----
\* a record with the attribute "-", whose placeholder is '#_'
DashRecord == M([k \in {pk, sk, "-"} |-> IF k = "-" THEN S(2) ELSE KeyValue])
MergeRecords ==
    {Record(S(2), NoItem), Record(S(2), S(2)), Record(M([a |-> S(2)]), NoItem), Record(NoItem, M([a |-> S(2)])),
     DashRecord}
\* '#b = :value1': the caller's token has the name of a compiled one
ConditionOnValue1 ==
    [conditionExpression |-> <<<<Atom("=", <<"b">>, "value1")>>>>, expressionAttributeValues |-> ":value1" :> S(1)]
\* 'attribute_exists(#_)': the caller's name is the sanitized name of "-"
ConditionOnUnderscore ==
    [conditionExpression |-> <<<<Atom("attribute_exists", <<"_">>, "")>>>>, expressionAttributeValues |-> <<>>]
MergeConditions == Conditions \cup {ConditionOnValue1, ConditionOnUnderscore}

\* the try block of updateRecordNested and upsertRecordNested up to the
\* request it builds: the compiled maps, spread with what parseExpression
\* returned for the caller's condition
MergePlaceholders ==
    /\ pc = "idle"
    /\ \E op \in {"updateRecordNested", "upsertRecordNested"},
          record \in MergeRecords, condition \in MergeConditions :
           LET c == Call(op, record, IncludeAll, {}, {}, condition, FALSE)
           IN /\ ~ParseThrows(c)
              /\ call' = c
    /\ pc' = "merged"
    /\ UNCHANGED <<table, before, requests, updateError, pending, outcome, run, other, batch, stored>>

SpecMerge == Init /\ [][MergePlaceholders]_vars

\* ------------------------------------- generateUpdateExpression on its own ----
\* a record of the one Identity with the given attributes
RecordOf(f) == M(Spread([k \in {pk, sk} |-> KeyValue], f))
\* records with the attributes "-" and "_", which convertToUnderscore maps to
\* the same word: as siblings, as the children of one Map, as Maps with a
\* child of the same name, and as the children of two Maps
CompileRecords ==
    Records \cup
    {RecordOf("-" :> S(1)),
     RecordOf("a" :> M("-" :> S(2))),
     RecordOf(("-" :> S(1)) @@ ("_" :> S(2))),
     RecordOf("a" :> M(("-" :> S(1)) @@ ("_" :> S(2)))),
     RecordOf(("-" :> M("a" :> S(1))) @@ ("_" :> M("a" :> S(2)))),
     RecordOf(("a" :> M("-" :> S(1))) @@ ("b" :> M("_" :> S(2)))),
     RecordOf(("a" :> M("a" :> S(1))) @@ ("b" :> M("a" :> S(2))))}

\* the include, exclude and insertOnly arguments the five operations pass
CompilePolicies ==
    {[include |-> IncludeAll, exclude |-> exclude, insertOnly |-> insertOnly] :
         exclude \in ExcludeLists, insertOnly \in InsertOnlyLists}
    \cup {[include |-> IncludeOnly(include), exclude |-> {}, insertOnly |-> {}] : include \in IncludeLists}

\* generateUpdateExpression({ record, include, exclude, insertOnly })
CallGenerateUpdateExpression ==
    /\ pc = "idle"
    /\ \E record \in CompileRecords, policy \in CompilePolicies :
           call' = Call("generateUpdateExpression", record, policy.include, policy.exclude,
                        policy.insertOnly, NoCondition, FALSE)
    /\ pc' = "compiled"
    /\ UNCHANGED <<table, before, requests, updateError, pending, outcome, run, other, batch, stored>>

SpecCompile == Init /\ [][CallGenerateUpdateExpression]_vars

\* ------------------------------------------------- the classifier alone ----
\* the failures client.send(command) can reject with: the names and the
\* messages of the gateway's exceptions, in every combination
FailureNames ==
    {"ValidationException", "ConditionalCheckFailedException", "InternalServerError",
     "ResourceNotFoundException"}
FailureMessages ==
    {<<>>, <<"The conditional request failed">>, <<"Internal server error">>,
     <<"Invalid UpdateExpression", "Syntax error; token: <EOF>">>,
     <<"Invalid UpdateExpression", "Two document paths overlap with each other">>,
     <<"The document ", "path provided in the update expression is invalid for update">>,
     <<"ExpressionAttributeValues must not be empty">>}
Failures == {[name |-> n, message |-> m, Item |-> NoItem] : n \in FailureNames, m \in FailureMessages}

\* send(command, operation) when client.send rejects: the catch wraps the
\* failure and throws the wrapper
SendRejected ==
    /\ pc = "idle"
    /\ \E orig \in Failures :
           /\ updateError' = orig
           /\ outcome' = Thrown(DynamodbError(orig))
    /\ call' = [op |-> "send"]
    /\ pc' = "done"
    /\ UNCHANGED <<table, before, requests, pending, run, other, batch, stored>>

SpecClassify == Init /\ [][SendRejected]_vars

\* ------------------------------------- the Nested calls, every request answered ----
NextNested ==
    \/ updateRecordNested
    \/ upsertRecordNested
    \/ FetchOriginalRecord
    \/ PutItem

\* the step of FetchOriginalRecord in which client.send rejects the GetItem
GetItemRejected ==
    /\ pc = "getRecord"
    /\ requests' = Append(requests, "GetItem")
    /\ Goto(Finish(Thrown(DynamodbError(InfrastructureFailure))))
    /\ UNCHANGED <<table, call, before, updateError, run, other, batch, stored>>

\* the read a call awaits settles: client.send rejects, or it resolves and
\* the recovery goes on.  As an action this is FetchOriginalRecord.
getRecordSettles == GetItemRejected \/ FetchOriginalRecord

\* client.send resolves or rejects: the read and the put a call awaits are
\* answered
SpecNested ==
    Init /\ [][NextNested]_vars /\ WF_vars(getRecordSettles) /\ WF_vars(PutItem)

\* ------------------------------------------------------ batch operations ----
\* the longest list of records a caller passes
MaxBatch == 101
\* the sizes of the chunks: 25 for BatchWriteItemCommand, 100 for
\* BatchGetItemCommand
WriteChunkSize == 25
GetChunkSize == 100

\* the lengths of the lists: the empty list, the lengths next to the
\* multiples of the smaller chunk size, and the longest
BatchLengths ==
    {n \in 0 .. MaxBatch : n % WriteChunkSize \in {0, 1, WriteChunkSize - 1}} \cup {MaxBatch}
\* a list of records with distinct identities, each named by its place
BatchRecords(n) == [i \in 1 .. n |-> i]

\* records.slice(i, i + size), i counted from 0
slice(records, i, size) ==
    SubSeq(records, i + 1, IF i + size < Len(records) THEN i + size ELSE Len(records))

\* the loop had it sliced one record further
RECURSIVE ChunksOneTooLong(_, _, _)
ChunksOneTooLong(records, i, size) ==
    IF i < Len(records)
    THEN <<slice(records, i, size + 1)>> \o ChunksOneTooLong(records, i + size, size)
    ELSE <<>>

\* the loop had it stopped before a chunk that is not full
RECURSIVE ChunksWholeOnly(_, _, _)
ChunksWholeOnly(records, i, size) ==
    IF i + size <= Len(records)
    THEN <<slice(records, i, size)>> \o ChunksWholeOnly(records, i + size, size)
    ELSE <<>>

\* for (let i = 0; i < records.length; i += size) chunks.push(records.slice(i, i + size))
RECURSIVE Chunks(_, _, _)
Chunks(records, i, size) ==
    IF i < Len(records)
    THEN <<slice(records, i, size)>> \o Chunks(records, i + size, size)
    ELSE <<>>

\* chunks.map(chunk => this.send(...)): one request per chunk, all sent
\* before the call awaits any of them
Dispatch(op, records, size, command) ==
    LET chunks == Chunks(records, 0, size)
    IN /\ pc = "idle"
       /\ run = 2 => records = call.records
       /\ call' = [op |-> op, records |-> records]
       /\ batch' = [op |-> op, records |-> records, chunks |-> chunks,
                    status |-> [g \in DOMAIN chunks |-> "pending"],
                    responses |-> [g \in DOMAIN chunks |-> <<>>],
                    first |-> 0,
                    previous |-> IF run = 2 THEN batch.op ELSE "none",
                    result |-> <<>>]
       /\ requests' = requests \o [g \in DOMAIN chunks |-> command]
       /\ UNCHANGED <<table, before, updateError, pending, run, other, stored>>

batchWriteRecord ==
    \E n \in BatchLengths :
        /\ Dispatch("batchWriteRecord", BatchRecords(n), WriteChunkSize, "BatchWriteItem")
        /\ pc' = "batch"
        /\ outcome' = Pending

batchGetRecord ==
    \E n \in BatchLengths :
        /\ Dispatch("batchGetRecord", BatchRecords(n), GetChunkSize, "BatchGetItem")
        /\ IF n = 0
           THEN pc' = "done" /\ outcome' = Returned
           ELSE pc' = "batch" /\ outcome' = Pending

batchDeleteRecord ==
    \E n \in BatchLengths :
        /\ Dispatch("batchDeleteRecord", BatchRecords(n), WriteChunkSize, "BatchWriteItem")
        /\ pc' = "batch"
        /\ outcome' = Pending

\* BatchWriteItemCommand had its DeleteRequests been put requests
BatchWriteItemOutcomePutsOnly(op, chunk, items) == items \cup Range(chunk)

\* what the table holds after the gateway has applied the request of a
\* group: PutRequests store the records, DeleteRequests remove them,
\* BatchGetItemCommand changes nothing
BatchWriteItemOutcome(op, chunk, items) ==
    CASE op = "batchWriteRecord" -> items \cup Range(chunk)
      [] op = "batchDeleteRecord" -> items \ Range(chunk)
      [] OTHER -> items

\* getRecord(pk, sk) of the identity of a record of the batch: the record,
\* or null when the table holds none
getStoredRecord(r) == IF r \in stored THEN S(r) ELSE Null

\* the gateway answers the request of one group, in any order: it has put or
\* deleted the records of the group, or read those of them that are stored,
\* or the request fails and nothing is changed; `first` records the group
\* whose answer came first
GroupResponds ==
    /\ batch.op # "none"
    /\ \E g \in DOMAIN batch.status :
        /\ batch.status[g] = "pending"
        /\ \/ /\ batch' = [batch EXCEPT
                      !.status[g] = "fulfilled",
                      !.first = IF @ = 0 THEN g ELSE @,
                      !.responses[g] = IF batch.op = "batchGetRecord"
                                       THEN SelectSeq(batch.chunks[g], LAMBDA r : r \in stored)
                                       ELSE <<>>]
              /\ stored' = BatchWriteItemOutcome(batch.op, batch.chunks[g], stored)
           \/ /\ batch' = [batch EXCEPT !.status[g] = "rejected", !.first = IF @ = 0 THEN g ELSE @]
              /\ stored' = stored
    /\ UNCHANGED <<table, pc, call, before, requests, updateError, pending, outcome, run, other>>

\* the loop had it kept the items of the response at hand only
RECURSIVE PushResponsesOverwriting(_, _)
PushResponsesOverwriting(results, responses) ==
    IF responses = <<>> THEN results
    ELSE PushResponsesOverwriting(Head(responses), Tail(responses))

\* for (const response of responses) results.push(...items of the response)
RECURSIVE PushResponses(_, _)
PushResponses(results, responses) ==
    IF responses = <<>> THEN results
    ELSE PushResponses(results \o Head(responses), Tail(responses))

\* the call had it waited for every answer and returned those of the
\* requests that were fulfilled
SettleReportingFulfilled ==
    /\ pc = "batch"
    /\ \A g \in DOMAIN batch.status : batch.status[g] # "pending"
    /\ Goto(Finish(Returned))
    /\ batch' = [batch EXCEPT
           !.result = IF batch.op = "batchGetRecord"
                      THEN PushResponses(<<>>, batch.responses)
                      ELSE SelectSeq([g \in DOMAIN batch.chunks |-> batch.status[g]],
                                     LAMBDA x : x = "fulfilled")]
    /\ UNCHANGED <<table, call, before, requests, updateError, run, other, stored>>

\* the call had it awaited Promise.race(promises): settled with the first
\* answer
SettleOnFirstAnswer ==
    /\ pc = "batch"
    /\ \/ batch.status = <<>>
       \/ \E g \in DOMAIN batch.status : batch.status[g] # "pending"
    /\ IF \E g \in DOMAIN batch.status : batch.status[g] = "rejected"
       THEN /\ Goto(Finish(Thrown(DynamodbError(InfrastructureFailure))))
            /\ batch' = batch
       ELSE /\ Goto(Finish(Returned))
            /\ batch' = [batch EXCEPT
                   !.result = IF batch.op = "batchGetRecord"
                              THEN PushResponses(<<>>, batch.responses)
                              ELSE [g \in DOMAIN batch.chunks |-> "output"]]
    /\ UNCHANGED <<table, call, before, requests, updateError, run, other, stored>>

\* Promise.all(promises) settles: rejected as soon as one request is, with
\* the error send threw; fulfilled when all are, and batchGetRecord then
\* pushes the items of the responses, in the order of the groups
Settle ==
    /\ pc = "batch"
    /\ IF \E g \in DOMAIN batch.status : batch.status[g] = "rejected"
       THEN /\ Goto(Finish(Thrown(DynamodbError(InfrastructureFailure))))
            /\ batch' = batch
       ELSE /\ \A g \in DOMAIN batch.status : batch.status[g] = "fulfilled"
            /\ Goto(Finish(Returned))
            /\ batch' = [batch EXCEPT
                   !.result = IF batch.op = "batchGetRecord"
                              THEN PushResponses(<<>>, batch.responses)
                              ELSE [g \in DOMAIN batch.chunks |-> "output"]]
    /\ UNCHANGED <<table, call, before, requests, updateError, run, other, stored>>

\* the caller, after a batch call that resolved, makes another batch call on
\* the same records
CallAgain ==
    /\ pc = "done"
    /\ run = 1
    /\ batch.op # "none"
    /\ outcome = Returned
    /\ run' = 2
    /\ pc' = "idle"
    /\ requests' = <<>>
    /\ outcome' = Pending
    /\ UNCHANGED <<table, call, before, updateError, pending, other, batch, stored>>

NextBatch ==
    \/ batchWriteRecord
    \/ batchGetRecord
    \/ batchDeleteRecord
    \/ GroupResponds
    \/ Settle
    \/ CallAgain

SpecBatch == Init /\ [][NextBatch]_vars

\* ================================================================ claims ====
\* the positions of a value that hold a leaf: a value that is not a Map and
\* not undefined (an attribute whose value is undefined counts as absent)
RECURSIVE LeafPaths(_)
LeafPaths(val) ==
    IF val.t = "M" THEN UNION {{<<k>> \o p : p \in LeafPaths(val.m[k])} : k \in DOMAIN val.m}
    ELSE IF val = Undefined \/ val = NoItem THEN {}
    ELSE {<<>>}

\* the positions of a value that hold an attribute whose value is undefined
RECURSIVE UndefinedPaths(_)
UndefinedPaths(val) ==
    IF val = Undefined THEN {<<>>}
    ELSE IF val.t = "M" THEN UNION {{<<k>> \o p : p \in UndefinedPaths(val.m[k])} : k \in DOMAIN val.m}
    ELSE {}

\* no leaf of the record lies on the way to p: writing the record's leaves
\* does not write a value over an ancestor of p
NothingAbove(p, record) ==
    \A n \in 1 .. (Len(p) - 1) : GetPath(record, SubSeq(p, 1, n)).t \in {"M", "U"}

\* the record has nothing at p and nothing above p
AbsentFrom(p, record) == GetPath(record, p) = Undefined /\ NothingAbove(p, record)

\* what generateUpdateExpression compiled for the call
Compiled == generateUpdateExpression(call.record, call.include, call.exclude, call.insertOnly)

\* every sub-expression of the caller's condition has one of the forms
\* parseExpression recognizes
ConditionRecognized ==
    \A atom \in Range(Flatten(call.conditionExpression)) : Matched(atom)

\* the condition of the caller, evaluated against an item
CallerConditionHolds(item) ==
    EvalCondition(item, call.conditionExpression,
                  parseExpression(call.conditionExpression, call.expressionAttributeValues).attributeNames,
                  call.expressionAttributeValues)

\* a request of the call failed on the way to the gateway or back
InfrastructureFailed == outcome.kind = "thrown" /\ outcome.error.name = "InternalServerError"

\* a call has ended without throwing
Completed == pc = "done" /\ outcome.kind \in {"returned", "undefined"}

\* C1: a completed upsertRecordNested(R) on an Identity that was absent leaves
\* the table holding exactly R, with or without a caller condition.
C1_FirstWrite ==
    (Completed /\ call.op = "upsertRecordNested" /\ before = NoItem)
        => table = RemoveUndefined(call.record)

\* C2: upsertRecordNested with a caller condition that is false of the
\* existing record returns undefined without throwing, sends no read and no
\* put, and leaves the stored record as it was.
C2_ConditionFalseIsNoOp ==
    (/\ call.op = "upsertRecordNested"
     /\ call.conditionExpression # <<>>
     /\ ConditionRecognized
     /\ ~ParseThrows(call)
     /\ before # NoItem
     /\ ~CallerConditionHolds(before)
     /\ updateError # InfrastructureFailure)
        => /\ pc = "done"
           /\ outcome = ReturnedUndefined
           /\ requests = <<"UpdateItem">>
           /\ table = before

\* C3: when the conditional update of upsertRecordNested fails with a schema
\* mismatch and the record exists, the call ends with the stored record
\* holding the incoming value at every leaf path of the incoming record and
\* its former value at every position absent from the incoming record.
C3_MergeOnSchemaMismatch ==
    (/\ pc = "done"
     /\ call.op = "upsertRecordNested"
     /\ isUpdateError(updateError)
     /\ before # NoItem
     /\ ~InfrastructureFailed)
        => /\ outcome = Returned
           /\ \A p \in LeafPaths(call.record) : GetPath(table, p) = GetPath(call.record, p)
           /\ \A p \in LeafPaths(before) :
                  AbsentFrom(p, call.record) => GetPath(table, p) = GetPath(before, p)

\* C4: for a path p of the insertOnly list of upsertRecordNested at which the
\* record carries a leaf, when the call has applied its write: a value stored
\* at p before the call is the value stored after it, and where none was
\* stored p holds the incoming value, whether the call completed by the
\* direct update or by a recovery.
C4_InsertOnly ==
    (pc = "done" /\ outcome = Returned /\ call.op = "upsertRecordNested")
        => \A p \in call.insertOnly \cap LeafPaths(call.record) :
               IF HasPath(before, p)
               THEN GetPath(table, p) = GetPath(before, p)
               ELSE GetPath(table, p) = GetPath(call.record, p)

\* C5: no call of the five update and upsert operations ends by throwing a
\* failure that classifies as schema mismatch or as failed condition check.
C5_RecoverableNeverSurfaced ==
    (pc = "done" /\ outcome.kind = "thrown")
        => ~isUpdateError(outcome.error) /\ ~isCheckError(outcome.error)

\* C6: updateRecordNested on an Identity that is absent returns undefined
\* without throwing and the Identity is still absent afterwards.
C6_UpdateAbsentIsNoOp ==
    (/\ call.op = "updateRecordNested"
     /\ before = NoItem
     /\ ConditionRecognized
     /\ ~ParseThrows(call)
     /\ updateError # InfrastructureFailure)
        => /\ pc = "done"
           /\ outcome = ReturnedUndefined
           /\ table = NoItem

\* C7: after updateRecordIncluding(R, S) on an existing record every leaf
\* path of R that is in S holds R's value, also a deep one none of whose
\* ancestors is in S, and every stored leaf that is not in S and not below a
\* path of S holds its former value.
C7_IncludingFrame ==
    (/\ pc = "done"
     /\ call.op = "updateRecordIncluding"
     /\ before # NoItem
     /\ ~InfrastructureFailed)
        => /\ \A p \in LeafPaths(call.record) \cap call.include.paths :
                  GetPath(table, p) = GetPath(call.record, p)
           /\ \A p \in LeafPaths(before) :
                  (\A q \in call.include.paths : ~IsPrefix(q, p))
                      => GetPath(table, p) = GetPath(before, p)

\* C8: after updateRecordExcluding(R, E) on an existing record the value
\* stored at every path of E that R does not overwrite from above is the
\* former one, and every leaf path of R outside the identity that is not in
\* E holds R's value.
C8_ExcludingFrame ==
    (/\ pc = "done"
     /\ call.op = "updateRecordExcluding"
     /\ before # NoItem
     /\ ~InfrastructureFailed)
        => /\ \A p \in call.exclude :
                  NothingAbove(p, call.record) => GetPath(table, p) = GetPath(before, p)
           /\ \A p \in LeafPaths(call.record) \ {<<pk>>, <<sk>>} :
                  p \notin call.exclude => GetPath(table, p) = GetPath(call.record, p)

\* C9: when the traversal yields no assignment the operation fails before
\* any request reaches the gateway: no request is sent and the call throws.
C9_EmptySetNeverSent ==
    (call.op # "none" /\ Compiled.UpdateExpression = <<>>)
        => requests = <<>> /\ pc = "done" /\ outcome.kind = "thrown"

C12_Placeholders ==
    call.op # "none"
        => /\ \A i \in DOMAIN Compiled.UpdateExpression :
                  LET clause == Compiled.UpdateExpression[i]
                  IN /\ \A j \in DOMAIN clause.path :
                            Hash(clause.path[j]) \in DOMAIN Compiled.ExpressionAttributeNames
                     /\ Colon(clause.value) \in DOMAIN Compiled.ExpressionAttributeValues
                     /\ clause.value = "value" \o ToString(i)
           /\ DOMAIN Compiled.ExpressionAttributeValues =
                  {Colon("value" \o ToString(i)) : i \in DOMAIN Compiled.UpdateExpression}

\* three assignments were compiled, at two nesting levels
C12_Witness ==
    /\ call.op # "none"
    /\ Len(Compiled.UpdateExpression) >= 3
    /\ \E i, j \in DOMAIN Compiled.UpdateExpression :
           Len(Compiled.UpdateExpression[i].source) # Len(Compiled.UpdateExpression[j].source)

\* what parseExpression returned for the condition of the call
Parsed == parseExpression(call.conditionExpression, call.expressionAttributeValues)

\* the sub-expressions of the call's condition that have a recognized form
RecognizedAtoms == {atom \in Range(Flatten(call.conditionExpression)) : Matched(atom)}

\* C13: for every attribute reference in a recognized form, parseExpression
\* registers each segment of its dotted chain as '#seg' -> 'seg', once,
\* however many sub-expressions mention the segment, and registers nothing else.
C13_SegmentsRegistered ==
    (call.op = "parseExpression" /\ outcome = Returned)
        => /\ \A w \in WordsOf(RecognizedAtoms) :
                  /\ Hash(w) \in DOMAIN Parsed.attributeNames
                  /\ Parsed.attributeNames[Hash(w)] = w
           /\ DOMAIN Parsed.attributeNames = {Hash(w) : w \in WordsOf(RecognizedAtoms)}

\* an expression of two sub-expressions that mention the same dotted chain
\* was parsed
C13_Witness ==
    /\ call.op = "parseExpression"
    /\ outcome = Returned
    /\ \E x, y \in RecognizedAtoms : x # y /\ x.path = y.path /\ Len(x.path) = 2

\* C14 as stated: the attributeValues returned hold exactly the value tokens
\* the expression references, each with the caller's value.
C14_ExactlyReferenced ==
    (call.op = "parseExpression" /\ outcome = Returned)
        => /\ DOMAIN Parsed.attributeValues =
                  {Colon(atom.value) : atom \in {x \in Range(Flatten(call.conditionExpression)) : x.value # ""}}
           /\ \A t \in DOMAIN Parsed.attributeValues :
                  /\ t \in DOMAIN call.expressionAttributeValues
                  /\ Parsed.attributeValues[t] = call.expressionAttributeValues[t]

\* C14 (amended): the attributeValues returned hold exactly the value tokens
\* referenced in a recognized form, each with the caller's value, and no
\* other entry of the caller's mapping.
C14_ExactlyRecognized ==
    (call.op = "parseExpression" /\ outcome = Returned)
        => /\ DOMAIN Parsed.attributeValues =
                  {Colon(atom.value) : atom \in {x \in RecognizedAtoms : x.value # ""}}
           /\ \A t \in DOMAIN Parsed.attributeValues :
                  /\ t \in DOMAIN call.expressionAttributeValues
                  /\ Parsed.attributeValues[t] = call.expressionAttributeValues[t]

\* an expression was parsed whose mapping holds a token the expression does
\* not mention and a token it mentions
C14_Witness ==
    /\ call.op = "parseExpression"
    /\ outcome = Returned
    /\ DOMAIN Parsed.attributeValues # {}
    /\ DOMAIN call.expressionAttributeValues \ DOMAIN Parsed.attributeValues # {}

\* the value tokens among the given sub-expressions of the call's condition
\* that the caller's mapping lacks
MissingTokens(atoms) ==
    {atom.value : atom \in {x \in atoms : x.value # "" /\
                                Colon(x.value) \notin DOMAIN call.expressionAttributeValues}}

\* the call ended with the error of parseExpression: it names a token that is
\* missing and quotes the expression; nothing was sent, the table is as it was
FailedOnMissingToken(tokens) ==
    /\ pc = "done"
    /\ outcome.kind = "thrown"
    /\ \E token \in tokens : includes(outcome.error.message, Colon(token))
    /\ includes(outcome.error.message, ExprText(call.conditionExpression))
    /\ outcome.error = Parsed.error
    /\ requests = <<>>
    /\ table = before

\* C15 as stated: when the condition references a value token the caller's
\* mapping lacks, parseExpression fails with an error that names the token
\* and quotes the expression, and updateRecordNested and upsertRecordNested
\* fail with it, send nothing and leave the table as it was.
C15_MissingTokenFails ==
    (/\ call.op \in {"parseExpression", "updateRecordNested", "upsertRecordNested"}
     /\ MissingTokens(Range(Flatten(call.conditionExpression))) # {})
        => FailedOnMissingToken(MissingTokens(Range(Flatten(call.conditionExpression))))

\* C15 (amended): the same for a value token referenced in a recognized form.
C15_MissingRecognizedTokenFails ==
    (/\ call.op \in {"parseExpression", "updateRecordNested", "upsertRecordNested"}
     /\ MissingTokens(RecognizedAtoms) # {})
        => FailedOnMissingToken(MissingTokens(RecognizedAtoms))

\* upsertRecordNested on an existing record with a condition whose token the
\* mapping lacks has ended
C15_Witness ==
    /\ call.op = "upsertRecordNested"
    /\ MissingTokens(RecognizedAtoms) # {}
    /\ before # NoItem
    /\ Compiled.UpdateExpression # <<>>
    /\ pc = "done"

C17_Idempotent ==
    (run = 2 /\ pc = "done" /\ outcome.kind \in {"returned", "undefined"})
        => table = before

\* C18: the PutItem request of the merge path replaces whatever the table
\* holds then: a write another caller committed between the GetItem and the
\* PutItem does not survive it.
C18_LastWriteWins ==
    [][(pc = "putRecord" /\ pc' = "done" /\ outcome'.kind = "returned") => table' = pending]_vars

\* what the other caller's call compiled
OtherCompiled == generateUpdateExpression(other.record, IncludeAll, {}, {})

\* the other caller committed between the read and the put of a call that
\* completed by merge-and-replace, and a leaf it wrote, at a path the first
\* caller's record has nothing at, is not in the table
C18_Witness ==
    /\ pc = "done"
    /\ outcome = Returned
    /\ requests = <<"UpdateItem", "GetItem", "PutItem">>
    /\ other # NoCall
    /\ other.at = "putRecord"
    /\ \E i \in DOMAIN OtherCompiled.UpdateExpression :
           LET p == OtherCompiled.UpdateExpression[i].source
           IN /\ AbsentFrom(p, call.record)
              /\ GetPath(table, p) # GetPath(other.record, p)

\* the paths of two assignments overlap: one is the other or lies under it
Overlapping(p, q) == IsPrefix(p, q) \/ IsPrefix(q, p)

\* both calls completed on their UpdateItem request, on an Identity that
\* existed
BothOnPrimaryWrite ==
    /\ pc = "done"
    /\ call.op \in {"updateRecordNested", "upsertRecordNested"}
    /\ outcome = Returned
    /\ requests = <<"UpdateItem">>
    /\ before # NoItem
    /\ other # NoCall

\* C19: when a call and the call of another caller, on one existing Identity,
\* both completed on their UpdateItem request, the table holds at every path
\* only one of them assigned the value it assigned (a value, for an
\* insert-only path), and at a path both assigned the value of one of them.
C19_AtomicWrites ==
    BothOnPrimaryWrite =>
        LET mine == Range(Compiled.UpdateExpression)
            theirs == Range(OtherCompiled.UpdateExpression)
        IN /\ \A x \in mine :
                  (\A y \in theirs : ~Overlapping(x.source, y.source))
                      => IF x.if_not_exists THEN HasPath(table, x.source)
                         ELSE GetPath(table, x.source) = GetPath(call.record, x.source)
           /\ \A y \in theirs :
                  (\A x \in mine : ~Overlapping(x.source, y.source))
                      => GetPath(table, y.source) = GetPath(other.record, y.source)
           /\ \A x \in mine : \A y \in theirs :
                  x.source = y.source
                      => \/ GetPath(table, x.source) = GetPath(other.record, x.source)
                         \/ IF x.if_not_exists THEN HasPath(table, x.source)
                            ELSE GetPath(table, x.source) = GetPath(call.record, x.source)

\* the other caller's request was applied first, the call's request second:
\* at "a", which both assigned, the table holds the call's value; at "b",
\* which only the other caller assigned, the other caller's
C19_Witness ==
    /\ BothOnPrimaryWrite
    /\ other.at = "idle"
    /\ other.record = Record(S(0), S(0))
    /\ call.record = Record(S(1), NoItem)
    /\ GetPath(table, <<"a">>) = S(1)
    /\ GetPath(table, <<"b">>) = S(0)

\* the records of the groups, one group after the other
RECURSIVE Concatenation(_)
Concatenation(chunks) == IF chunks = <<>> THEN <<>> ELSE Head(chunks) \o Concatenation(Tail(chunks))

\* C20: batchWriteRecord and batchDeleteRecord on n records send ceil(n/25)
\* group requests and batchGetRecord ceil(n/100); every group holds between
\* 1 and 25 (100) records, and the groups one after the other are the input,
\* every record once and in its place.
C20_Chunking ==
    (batch.op # "none" /\ pc # "idle") =>
        LET size == IF batch.op = "batchGetRecord" THEN 100 ELSE 25
            n == Len(batch.records)
        IN /\ Len(batch.chunks) = (n + size - 1) \div size
           /\ Len(requests) = Len(batch.chunks)
           /\ \A g \in DOMAIN batch.chunks :
                  Len(batch.chunks[g]) >= 1 /\ Len(batch.chunks[g]) <= size
           /\ Concatenation(batch.chunks) = batch.records

\* batchDeleteRecord on 26 records has sent two requests, the second for one
\* record
C20_Witness ==
    /\ batch.op = "batchDeleteRecord"
    /\ Len(batch.records) = 26
    /\ Len(requests) = 2
    /\ batch.chunks[2] = <<26>>

\* C21: batchGetRecord that resolved on records that are all stored returns
\* as many items as records, one for every identity, in whatever order the
\* answers of the groups came; on an empty list it returns an empty list and
\* sends nothing.
C21_BatchGetReturnsAll ==
    (/\ batch.op = "batchGetRecord"
     /\ pc = "done"
     /\ outcome = Returned
     /\ Range(batch.records) \subseteq stored)
        => /\ Len(batch.result) = Len(batch.records)
           /\ \A r \in Range(batch.records) :
                  Cardinality({i \in DOMAIN batch.result : batch.result[i] = r}) = 1
           /\ batch.records = <<>> => (batch.result = <<>> /\ requests = <<>>)

\* batchGetRecord on more stored records than one group holds has resolved,
\* the answer of the second group having come first
C21_Witness ==
    /\ batch.op = "batchGetRecord"
    /\ pc = "done"
    /\ outcome = Returned
    /\ Range(batch.records) \subseteq stored
    /\ Len(batch.chunks) = 2
    /\ batch.first = 2
    /\ Len(batch.result) = Len(batch.records)

\* C22: when the request of a group of a batch call has failed the call does
\* not return: it is awaiting or it has thrown the failure, and it reports
\* nothing of the groups whose requests succeeded.
C22_GroupFailureFailsCall ==
    (batch.op # "none" /\ \E g \in DOMAIN batch.status : batch.status[g] = "rejected")
        => /\ outcome.kind \in {"pending", "thrown"}
           /\ batch.result = <<>>
           /\ pc = "done" => /\ outcome.kind = "thrown"
                             /\ outcome.error.original = InfrastructureFailure

\* batchWriteRecord has thrown: the request of one group failed, that of
\* another succeeded and its records are stored
C22_Witness ==
    /\ batch.op = "batchWriteRecord"
    /\ pc = "done"
    /\ outcome.kind = "thrown"
    /\ \E g \in DOMAIN batch.status : batch.status[g] = "rejected"
    /\ \E g \in DOMAIN batch.status :
           batch.status[g] = "fulfilled" /\ Range(batch.chunks[g]) \subseteq stored

\* every request of the batch call was sent in the step that started it
AllDispatched == (batch.op # "none" /\ pc # "idle") => Len(requests) = Len(batch.chunks)

\* C23 as stated: a batch call sends the requests of all its groups before
\* it awaits any, and has ended, one way or the other, only when every
\* request has been answered.
C23_EndsAfterEveryAnswer ==
    /\ AllDispatched
    /\ (batch.op # "none" /\ pc = "done")
           => \A g \in DOMAIN batch.status : batch.status[g] # "pending"

\* C23, amended: a batch call sends the requests of all its groups before it
\* awaits any; it has returned only when every request has succeeded, and it
\* has thrown only when a request has failed, answered or not the others.
C23_ReturnsAfterEveryAnswer ==
    /\ AllDispatched
    /\ (batch.op # "none" /\ pc = "done" /\ outcome = Returned)
           => \A g \in DOMAIN batch.status : batch.status[g] = "fulfilled"
    /\ (batch.op # "none" /\ pc = "done" /\ outcome.kind = "thrown")
           => \E g \in DOMAIN batch.status : batch.status[g] = "rejected"

\* batchDeleteRecord has thrown after the request of one group failed, the
\* request of another group not answered yet
C23_Witness ==
    /\ batch.op = "batchDeleteRecord"
    /\ pc = "done"
    /\ outcome.kind = "thrown"
    /\ \E g \in DOMAIN batch.status : batch.status[g] = "rejected"
    /\ \E g \in DOMAIN batch.status : batch.status[g] = "pending"

\* C24: after batchWriteRecord has returned, getRecord on the identity of
\* every record of the input returns a record.
C24_BatchWriteStoresAll ==
    (batch.op = "batchWriteRecord" /\ pc = "done" /\ outcome = Returned)
        => \A r \in Range(batch.records) : getStoredRecord(r) # Null

\* batchWriteRecord on more records than one group holds has returned and
\* the last record of the input is stored
C24_Witness ==
    /\ batch.op = "batchWriteRecord"
    /\ pc = "done"
    /\ outcome = Returned
    /\ Len(batch.records) > 25
    /\ getStoredRecord(batch.records[Len(batch.records)]) # Null

\* C25: after batchWriteRecord(records) has returned and batchDeleteRecord on
\* the same records has returned, getRecord on the identity of every record
\* returns null.
C25_BatchDeleteRemovesAll ==
    (/\ batch.op = "batchDeleteRecord"
     /\ batch.previous = "batchWriteRecord"
     /\ pc = "done"
     /\ outcome = Returned)
        => \A r \in Range(batch.records) : getStoredRecord(r) = Null

\* batchDeleteRecord has returned on more records than one group holds,
\* which batchWriteRecord had stored before, and nothing is stored
C25_Witness ==
    /\ batch.op = "batchDeleteRecord"
    /\ batch.previous = "batchWriteRecord"
    /\ pc = "done"
    /\ outcome = Returned
    /\ Len(batch.chunks) > 1
    /\ stored = {}

\* the requests of a Nested call follow the order update, read, put: a read
\* only after an update that failed with a schema mismatch, a put only after
\* an update that failed with a schema mismatch or a failed condition check,
\* and nothing after an update that succeeded, whose call has returned
OrderedRequests ==
    /\ requests \in {<<>>, <<"UpdateItem">>, <<"UpdateItem", "GetItem">>, <<"UpdateItem", "PutItem">>,
                     <<"UpdateItem", "GetItem", "PutItem">>}
    /\ "GetItem" \in Range(requests) => isUpdateError(updateError)
    /\ "PutItem" \in Range(requests) => (isUpdateError(updateError) \/ isCheckError(updateError))
    /\ (requests # <<>> /\ updateError = NoError)
           => (requests = <<"UpdateItem">> /\ pc = "done" /\ outcome = Returned)

\* C26 as stated: every call of updateRecordNested and upsertRecordNested
\* sends exactly one UpdateItem request, and its requests are ordered as
\* above.
C26_ExactlyOneUpdate ==
    call.op \in {"updateRecordNested", "upsertRecordNested"}
        => /\ requests # <<>>
           /\ OrderedRequests

\* C26, amended: a call of updateRecordNested or upsertRecordNested sends no
\* request when parseExpression throws on the caller's condition and exactly
\* one UpdateItem request otherwise, and its requests are ordered as above.
C26_OneUpdateUnlessParseFails ==
    call.op \in {"updateRecordNested", "upsertRecordNested"}
        => /\ requests = <<>> <=> ParseThrows(call)
           /\ OrderedRequests

\* upsertRecordNested has returned after an update that failed with a schema
\* mismatch, a read and a put
C26_Witness ==
    /\ call.op = "upsertRecordNested"
    /\ pc = "done"
    /\ outcome = Returned
    /\ isUpdateError(updateError)
    /\ requests = <<"UpdateItem", "GetItem", "PutItem">>

\* the request the Nested call sent
SentParams == updateItem(NestedParams(call.record, call, Compiled, "NONE"))

\* C27: the UpdateItem request of updateRecordNested and upsertRecordNested
\* is applied only to an Identity that exists, whatever the caller's
\* condition: every alternative of the condition sent requires
\* attribute_exists of the partition key and of the sort key.
C27_RequiresIdentity ==
    (call.op \in {"updateRecordNested", "upsertRecordNested"} /\ requests # <<>>)
        => /\ before = NoItem => updateError # NoError
           /\ \A i \in DOMAIN SentParams.ConditionExpression :
                  {Atom("attribute_exists", <<pk>>, ""), Atom("attribute_exists", <<sk>>, "")}
                      \subseteq Range(SentParams.ConditionExpression[i])

\* C28: a request of updateRecordNested that the gateway answers while the
\* table holds nothing under the Identity leaves the table holding nothing,
\* whatever other callers have deleted or written before.
C28_UpdateNeverCreates ==
    [][(call'.op = "updateRecordNested" /\ requests' # requests /\ table = NoItem)
           => table' = NoItem]_vars

\* C29: when upsertRecordNested has inserted its record after a failed
\* condition check and another caller's putRecord was applied between the
\* check and the insert, the table holds every attribute the other caller
\* wrote.
C29_InsertKeepsOtherWriter ==
    (/\ call.op = "upsertRecordNested"
     /\ pc = "done"
     /\ outcome = Returned
     /\ requests = <<"UpdateItem", "PutItem">>
     /\ other.op = "putRecord"
     /\ other.at = "putRecord")
        => DOMAIN other.record.m \subseteq DOMAIN table.m

\* the request a Nested call builds from its arguments
BuiltParams == NestedParams(call.record, call, Compiled, "NONE")

\* C30: in the request of updateRecordNested and upsertRecordNested every
\* name placeholder and every value placeholder of the compiled update
\* expression is bound to what the compilation bound it to, whatever the
\* caller's condition and values.
C30_BindingsKept ==
    call.op \in {"updateRecordNested", "upsertRecordNested"}
        => \A i \in DOMAIN Compiled.UpdateExpression :
               LET clause == Compiled.UpdateExpression[i]
               IN /\ \A j \in DOMAIN clause.path :
                         BuiltParams.ExpressionAttributeNames[Hash(clause.path[j])]
                             = Compiled.ExpressionAttributeNames[Hash(clause.path[j])]
                  /\ BuiltParams.ExpressionAttributeValues[Colon(clause.value)]
                         = Compiled.ExpressionAttributeValues[Colon(clause.value)]

\* the document path an assignment of the compiled expression writes
Target(clause) == ResolvePath(clause.path, Compiled.ExpressionAttributeNames)

\* C31: every assignment of a compiled expression resolves, through the
\* attribute-names map, to the path of the leaf its value was taken from, and
\* the assignments of two distinct leaf paths never resolve to the same path.
C31_ResolvesToSource ==
    call.op # "none"
        => /\ \A i \in DOMAIN Compiled.UpdateExpression :
                  Target(Compiled.UpdateExpression[i]) = Compiled.UpdateExpression[i].source
           /\ \A i, j \in DOMAIN Compiled.UpdateExpression :
                  Compiled.UpdateExpression[i].source # Compiled.UpdateExpression[j].source
                      => Target(Compiled.UpdateExpression[i]) # Target(Compiled.UpdateExpression[j])

\* p is neither a path of the list, nor below one, nor above one
OutsideOf(p, paths) == \A q \in paths : ~IsPrefix(q, p) /\ ~IsPrefix(p, q)

\* C32: after upsertRecordIncluding(R, S) on an existing record, whether it
\* completed by the direct update or by the recovery of a schema mismatch,
\* every stored leaf outside S holds the value it held before the call.
C32_UpsertIncludingFrame ==
    (/\ pc = "done"
     /\ outcome = Returned
     /\ call.op = "upsertRecordIncluding"
     /\ before # NoItem)
        => \A p \in LeafPaths(before) :
               OutsideOf(p, call.include.paths) => GetPath(table, p) = GetPath(before, p)

\* the call completed on its first request, the conditional UpdateItem
OnPrimaryWrite == pc = "done" /\ outcome = Returned /\ requests = <<"UpdateItem">>

\* C33: after an update or upsert that completed on the primary conditional
\* write, every stored leaf at a path the incoming record does not carry holds
\* its former value; an incoming empty Map at p leaves the children of p in
\* place.
C33_AbsentPathsRetained ==
    (OnPrimaryWrite /\ before # NoItem)
        => \A p \in LeafPaths(before) :
               AbsentFrom(p, call.record) => GetPath(table, p) = GetPath(before, p)

\* the read of the recovery found no item: the Identity was absent when the
\* call started, or another caller deleted it between the failed update and
\* the read
ReadFoundAbsent ==
    IF other.op # "none" /\ other.at = "getRecord"
    THEN other.op = "batchDeleteRecord"
    ELSE before = NoItem

\* C34: when the conditional update of upsertRecordNested failed with a
\* schema mismatch and the read that follows found the Identity absent, the
\* call returns without error and the table holds exactly the supplied record.
C34_AbsentOnReadIsInsert ==
    (/\ pc = "done"
     /\ call.op = "upsertRecordNested"
     /\ isUpdateError(updateError)
     /\ ReadFoundAbsent
     /\ ~(other.op # "none" /\ other.at = "done")
     /\ ~InfrastructureFailed)
        => /\ outcome = Returned
           /\ table = RemoveUndefined(call.record)

\* the leaves of the call's record beneath a Map whose path is in the exclude
\* list, that are not themselves in the list
BeneathExcludedMap ==
    {p \in LeafPaths(call.record) :
         /\ p \notin call.exclude
         /\ \E e \in call.exclude : IsPrefix(e, p) /\ isNestedRecord(GetPath(call.record, e))}

\* the paths the compiled expression has an assignment for
AssignedSources == {Compiled.UpdateExpression[i].source : i \in DOMAIN Compiled.UpdateExpression}

\* C35 as stated: the children of a Map whose path is in the exclude list are
\* still visited, a leaf beneath it that is not itself excluded is assigned.
C35_ChildrenOfExcludedVisited ==
    call.op # "none" => BeneathExcludedMap \subseteq AssignedSources

\* C35 (amended): a Map whose path is in the exclude list is skipped with
\* everything beneath it: no assignment is emitted for an excluded path or
\* for any leaf below one, whether or not the leaf is itself in the list.
C35_ExcludedSubtreeSkipped ==
    call.op # "none"
        => \A p \in AssignedSources : \A e \in call.exclude : ~IsPrefix(e, p)

\* an expression with an assignment was compiled for a record that has, beneath
\* an excluded Map, a leaf that is not in the exclude list
C35_Witness ==
    /\ pc = "compiled"
    /\ BeneathExcludedMap # {}
    /\ AssignedSources # {}

\* the leaves of the call's record that carry null and are neither in the
\* exclude list nor beneath a path of it
NullLeaves ==
    {p \in LeafPaths(call.record) :
         GetPath(call.record, p) = Null /\ \A e \in call.exclude : ~IsPrefix(e, p)}

\* C36: after updateRecordExcluding on an existing record, the table holds
\* null at every non-excluded leaf path at which the incoming record carries
\* null.
C36_NullStored ==
    (/\ pc = "done"
     /\ call.op = "updateRecordExcluding"
     /\ before # NoItem
     /\ ~InfrastructureFailed)
        => \A p \in NullLeaves : GetPath(table, p) = Null

\* the messages that name a failed update path
UpdatePathSignatures ==
    {"path provided in the update expression is invalid for update", "Invalid UpdateExpression"}

\* C37: a failure classifies as schema mismatch exactly when its name is
\* ValidationException and its message contains an update-path signature, as
\* failed condition check exactly when its name is
\* ConditionalCheckFailedException, never as both, and the wrapper send throws
\* classifies as the failure it wraps.
C37_Classifier ==
    call.op = "send"
        => /\ isUpdateError(updateError)
                  <=> (/\ updateError.name = "ValidationException"
                       /\ \E i \in DOMAIN updateError.message : updateError.message[i] \in UpdatePathSignatures)
           /\ isCheckError(updateError) <=> updateError.name = "ConditionalCheckFailedException"
           /\ ~(isUpdateError(updateError) /\ isCheckError(updateError))
           /\ isUpdateError(outcome.error) <=> isUpdateError(updateError)
           /\ isCheckError(outcome.error) <=> isCheckError(updateError)

\* a failed condition check that came without a message was wrapped: the
\* wrapper carries another message and classifies as a failed condition check
C37_Witness ==
    /\ call.op = "send"
    /\ updateError.message = <<>>
    /\ outcome.error.message # updateError.message
    /\ isCheckError(outcome.error)

\* a segment with every character outside [A-Za-z0-9_] replaced by '_'
Sanitized(segment) == IF segment = "-" THEN "_" ELSE segment

\* C38: the name placeholder of an assigned leaf is the chain of its path
\* segments, each sanitized and prefixed with '#'; every segment of the chain
\* is in the attribute-names map as '#sanitized' -> segment, and the map holds
\* one entry per sanitized segment, however many leaves share the segment.
C38_PlaceholderChain ==
    call.op # "none"
        => /\ \A i \in DOMAIN Compiled.UpdateExpression :
                  LET clause == Compiled.UpdateExpression[i]
                  IN /\ clause.path = [j \in DOMAIN clause.source |-> Sanitized(clause.source[j])]
                     /\ \A j \in DOMAIN clause.source :
                            /\ Hash(Sanitized(clause.source[j])) \in DOMAIN Compiled.ExpressionAttributeNames
                            /\ Compiled.ExpressionAttributeNames[Hash(Sanitized(clause.source[j]))]
                                   = clause.source[j]
           /\ DOMAIN Compiled.ExpressionAttributeNames =
                  UNION {{Hash(Sanitized(p[j])) : j \in DOMAIN p} : p \in AssignedSources}

\* the terminal outcomes of a call.  Applied: the gateway's result of the
\* update, or of the put after the read of a schema mismatch (merge) or after
\* a failed condition check on an absent Identity (insert), is returned.
Applied ==
    /\ outcome = Returned
    /\ \/ requests = <<"UpdateItem">> /\ updateError = NoError
       \/ requests = <<"UpdateItem", "GetItem", "PutItem">> /\ isUpdateError(updateError)
       \/ requests = <<"UpdateItem", "PutItem">> /\ isCheckError(updateError)
\* Rejected: undefined is returned after a failed condition check, nothing
\* was written
RejectedNoOp ==
    /\ outcome = ReturnedUndefined
    /\ requests = <<"UpdateItem">>
    /\ isCheckError(updateError)
    /\ table = before
\* Failed: the call threw, nothing was written
Failed == outcome.kind = "thrown" /\ table = before

ExactlyOneTerminalOutcome ==
    /\ Applied \/ RejectedNoOp \/ Failed
    /\ ~(Applied /\ RejectedNoOp)
    /\ ~(Applied /\ Failed)
    /\ ~(RejectedNoOp /\ Failed)

\* C39: when every request to the gateway is answered, a call of
\* updateRecordNested or upsertRecordNested ends, and it ends in exactly one
\* of Applied (directly, by merge or by insert), Rejected no-op and Failed.
C39_ReachesTerminalOutcome ==
    (call.op \in {"updateRecordNested", "upsertRecordNested"})
        ~> (pc = "done" /\ ExactlyOneTerminalOutcome)

\* a call that went through the read and the put of the recovery has ended
C39_Witness ==
    /\ pc = "done"
    /\ call.op \in {"updateRecordNested", "upsertRecordNested"}
    /\ requests = <<"UpdateItem", "GetItem", "PutItem">>
    /\ Applied

====
